---- MODULE Spec2Model ----
(***************************************************************************)
(* Model of the MCP server of LilLeapo/openintern:                         *)
(*   python/src/mcp_server/protocol/mcp.py   (dispatcher and read loop)    *)
(*   python/src/mcp_server/tools/memory.py   (memory.write/search/get)     *)
(*   python/src/mcp_server/tools/base.py     (Tool contract)               *)
(*   python/src/mcp_server/server.py         (tool registration)           *)
(*                                                                         *)
(* Python values are modelled as follows.  None is the string NoneV.  A    *)
(* dict is a function whose DOMAIN is the set of its keys.  A JSON value   *)
(* whose type decides a code path is tagged: JObj(d), JNull, JArr.  A      *)
(* text (record content, tag, keyword, query) is a sequence of one-letter  *)
(* strings.  An exception is a record with its class name `type' and its   *)
(* str() `msg'.  A formatted message f"prefix{x}" is the pair <<prefix,x>>.*)
(***************************************************************************)
EXTENDS Integers, Sequences, FiniteSets, TLC

VARIABLES
    pc,           \* position of the server process in run() / execute()
    running,      \* MCPProtocol._running
    initialized,  \* MCPProtocol.initialized
    tools,        \* MCPProtocol.tools: registered names in insertion order
    request,      \* the value json.loads returned for the line in flight
    response,     \* the response built for the line in flight
    output,       \* log of the writes to stdout, oldest first: for each
                  \* response the number of the line it answers (the
                  \* message itself is `response' when it is written)
    nread,        \* number of readline() calls that returned so far
    curLine,      \* the number of the last non-empty line this process
                  \* took in (0: none yet)
    items,        \* <base>/memory/shared/items: memory id -> file content
    indexFile,    \* <base>/memory/shared/index/keyword.json
    tmpFile,      \* <base>/memory/shared/index/keyword.json.tmp
    wr,           \* locals of the memory.write call in flight
    regops,       \* number of register/unregister calls made so far
    crashes,      \* number of process crashes so far
    written,      \* history: memory id -> the arguments of the memory.write
                  \* call that returned it with success
    call,         \* history: the last register_tool / unregister_tool call,
                  \* with its argument and what it returned
    writers       \* the writer processes of a deployment in which several
                  \* processes share the data directory: for each its
                  \* position in memory.write and its local values (none
                  \* in the single server process of Spec)

vars == <<pc, running, initialized, tools, request, response, output, nread,
          curLine, items, indexFile, tmpFile, wr, regops, crashes, written,
          call, writers>>

proto == <<running, initialized, tools>>
disk  == <<items, indexFile, tmpFile>>

----------------------------------------------------------------------------
(* Bounds of the model.                                                    *)

MaxLines   == 3   \* lines read from stdin, over all process incarnations
MaxIds     == 2   \* memory ids the random source hands out
MaxRegOps  == 1   \* register_tool / unregister_tool calls after construction
MaxCrashes == 1   \* process crashes (each followed by a restart)
MaxStored  == 6   \* records in the store a memory.search is run against

----------------------------------------------------------------------------
(* JSON-RPC error codes, mcp.py lines 21-25.                               *)

PARSE_ERROR      == -32700
INVALID_REQUEST  == -32600
METHOD_NOT_FOUND == -32601
INVALID_PARAMS   == -32602
INTERNAL_ERROR   == -32603

----------------------------------------------------------------------------
(* Python values.                                                          *)

NoneV == "<None>"

EmptyDict == [k \in {} |-> NoneV]

JNull   == [t |-> "null"]
JArr    == [t |-> "array"]
JObj(d) == [t |-> "object", v |-> d]

IsDict(j) == j.t = "object"

\* dict.get(key, default)
Get(d, k, default) == IF k \in DOMAIN d THEN d[k] ELSE default

\* d with d[k] = v assigned
Put(d, k, v) == [x \in DOMAIN d \cup {k} |-> IF x = k THEN v ELSE d[x]]

\* outcomes of an evaluation that may raise
Ok(v)      == [ok |-> TRUE, val |-> v]
Raise(e)   == [ok |-> FALSE, exc |-> e]

Exc(type, msg) == [type |-> type, msg |-> msg]

\* MCPError.__init__, data left at its default None
MCPError(code, message) ==
    [type |-> "MCPError", code |-> code, message |-> message, data |-> NoneV,
     msg |-> message]

IsMCPError(e) == e.type = "MCPError"

\* MCPError.to_dict
to_dict(e) ==
    IF e.data # NoneV
    THEN [code |-> e.code, message |-> e.message, data |-> e.data]
    ELSE [code |-> e.code, message |-> e.message]

----------------------------------------------------------------------------
(* Texts.                                                                  *)

Alnum == {"a", "b", "c", "h", "t", "H", "T", "1"}
Space == {" "}

lower(c) == IF c = "H" THEN "h" ELSE IF c = "T" THEN "t" ELSE c

Lower(s) == [i \in 1..Len(s) |-> lower(s[i])]

\* ''.join(c for c in word if c.isalnum())
Cleaned(w) == SelectSeq(w, LAMBDA c : c \in Alnum)

\* str.split(): the maximal runs of non-whitespace characters
RECURSIVE Split(_, _, _)
Split(s, i, cur) ==
    IF i > Len(s)
    THEN IF cur = <<>> THEN <<>> ELSE <<cur>>
    ELSE IF s[i] \in Space
         THEN IF cur = <<>> THEN Split(s, i + 1, <<>>)
                            ELSE <<cur>> \o Split(s, i + 1, <<>>)
         ELSE Split(s, i + 1, Append(cur, s[i]))

split(s) == Split(s, 1, <<>>)

\* str.strip() == ""
IsBlank(s) == \A i \in 1..Len(s) : s[i] \in Space

\* a in b, for texts
IsSubstring(a, b) ==
    \E i \in 0..(Len(b) - Len(a)) :
        \A j \in 1..Len(a) : b[i + j] = a[j]

Range(s) == {s[i] : i \in 1..Len(s)}

----------------------------------------------------------------------------
(* Files.                                                                  *)

Absent      == [exists |-> FALSE]
PartialFile == [exists |-> TRUE, partial |-> TRUE]
FullFile(d) == [exists |-> TRUE, partial |-> FALSE, data |-> d]

\* os.path.exists(path)
exists(f) == f.exists

\* json.load(f) of an existing file: a file whose text was not written to
\* its end does not parse
json_load(f) ==
    IF f.partial
    THEN Raise(Exc("JSONDecodeError", <<"Expecting value">>))
    ELSE Ok(f.data)

\* the file of a memory id in the items directory
ItemFile(its, id) == IF id \in DOMAIN its THEN its[id] ELSE Absent

\* json.dumps(result): the serialized form of a value
json_dumps(v) == [json |-> v]

----------------------------------------------------------------------------
(* Tools: base.py, memory.py, server.py and the tools of the tests.        *)

MemIdPool == <<"mem_a", "mem_b", "mem_c", "mem_d", "mem_e", "mem_f", "mem_g",
               "mem_h">>

\* the values generate_memory_id returns within the bounds
MemIds == {MemIdPool[i] : i \in 1..MaxIds}

\* generate_memory_id: a value of 12 random characters.  The values are
\* told apart only by equality and, with 62^12 of them, one is not drawn
\* twice; the model hands out the first value of the pool that names no
\* file of the items directory.
generate_memory_id(its) ==
    MemIdPool[CHOOSE i \in 1..MaxIds :
                 /\ MemIdPool[i] \notin DOMAIN its
                 /\ \A j \in 1..(i - 1) : MemIdPool[j] \in DOMAIN its]

ServerTools == <<"memory.write", "memory.search", "memory.get">>

ToolNames == {"memory.write", "memory.search", "memory.get", "failing.tool"}

description(name) ==
    CASE name = "memory.write"  -> "Write a memory item to the memory store"
      [] name = "memory.search" -> "Search for memories by keyword"
      [] name = "memory.get"    -> "Get a specific memory by ID"
      [] OTHER                  -> "A tool that always fails"

\* the parameters of execute(): required ones and ones with a default
required(name) ==
    CASE name = "memory.write"  -> {"content"}
      [] name = "memory.search" -> {"query"}
      [] name = "memory.get"    -> {"memory_id"}
      [] OTHER                  -> {}

optional(name) ==
    CASE name = "memory.write"  -> {"tags"}
      [] name = "memory.search" -> {"top_k"}
      [] OTHER                  -> {}

parameters(name) ==
    [type |-> "object",
     properties |-> required(name) \cup optional(name),
     required |-> required(name)]

\* Tool.to_dict
tool_to_dict(name) ==
    [name |-> name, description |-> description(name),
     inputSchema |-> parameters(name)]

\* MCPProtocol.list_tools
list_tools(tls) == [tools |-> [i \in 1..Len(tls) |-> tool_to_dict(tls[i])]]

\* mutant: a name registered again is taken out and entered anew, last
register_tool_Reinsert(tls, name) ==
    Append(SelectSeq(tls, LAMBDA n : n # name), name)

\* self.tools[tool.name] = tool: a new key goes last, an old key keeps its place
register_tool(tls, name) ==
    IF name \in Range(tls) THEN tls ELSE Append(tls, name)

\* del self.tools[name]
unregister_tool(tls, name) == SelectSeq(tls, LAMBDA n : n # name)

\* tool.execute(**arguments): binding the keyword arguments
BindArguments(name, arguments) ==
    IF ~IsDict(arguments)
    THEN Raise(Exc("TypeError", <<"argument after ** must be a mapping">>))
    ELSE IF ~(required(name) \subseteq DOMAIN arguments.v)
    THEN Raise(Exc("TypeError", <<"missing required positional argument">>))
    ELSE IF ~(DOMAIN arguments.v \subseteq required(name) \cup optional(name))
    THEN Raise(Exc("TypeError", <<"got an unexpected keyword argument">>))
    ELSE Ok(arguments.v)

\* what the execute() of a tool of the tests may raise: FailingTool raises a
\* ValueError; the Tool contract lets an implementation raise anything, an
\* MCPError with a code of its own included
ToolFailures ==
    {Exc("ValueError", <<"Tool failed">>),
     MCPError(INVALID_PARAMS, <<"Bad tool input">>)}

----------------------------------------------------------------------------
(* memory.write                                                            *)

\* MemoryWriteTool._extract_keywords, as the set it builds
extract_keywords(item) ==
    {Lower(item.keywords[i]) : i \in 1..Len(item.keywords)}
    \cup {Cleaned(w) : w \in {x \in Range(split(Lower(item.content))) :
                                 Len(Cleaned(x)) >= 3}}

\* mutant: an item is entered under the keywords new to the index only
AddToIndex_NewKeywordsOnly(index, item) ==
    LET kws == extract_keywords(item)
    IN  [k \in DOMAIN index \cup kws |->
            IF k \in DOMAIN index THEN index[k] ELSE <<item.id>>]

\* mutant: the id list of a keyword of the item is started anew
AddToIndex_ReplaceList(index, item) ==
    LET kws == extract_keywords(item)
    IN  [k \in DOMAIN index \cup kws |->
            IF k \in kws THEN <<item.id>> ELSE index[k]]

\* the loop of lines 101-106 of memory.py over the loaded index
AddToIndex(index, item) ==
    LET kws == extract_keywords(item)
    IN  [k \in DOMAIN index \cup kws |->
            LET old == IF k \in DOMAIN index THEN index[k] ELSE <<>>
            IN  IF k \in kws /\ item.id \notin Range(old)
                THEN Append(old, item.id)
                ELSE old]

\* mutant: the tags are stored case-folded, as the index has them
NewItem_LowerTags(id, a) ==
    [id |-> id, content |-> a.content,
     keywords |-> IF "tags" \in DOMAIN a
                  THEN [i \in 1..Len(a.tags) |-> Lower(a.tags[i])]
                  ELSE <<>>]

\* the item built by lines 66-72 of memory.py (the two timestamps, which no
\* operation reads back, are left out)
NewItem(id, a) ==
    [id |-> id, content |-> a.content,
     keywords |-> IF "tags" \in DOMAIN a THEN a.tags ELSE <<>>]

\* a tag that is the JSON number 1: json.dump stores it, and it has no
\* lower() for _extract_keywords to call
NotAString == <<"#1">>

\* lines 93-106 as a whole, given how the load of the index file went: the
\* load may raise, kw.lower() raises for a tag that is not a string, and
\* otherwise the item is added to the loaded index
UpdatedIndex(cur, item) ==
    IF ~cur.ok THEN cur
    ELSE IF \E i \in 1..Len(item.keywords) : item.keywords[i] = NotAString
    THEN Raise(Exc("AttributeError",
                   <<"'int' object has no attribute 'lower'">>))
    ELSE Ok(AddToIndex(cur.val, item))

----------------------------------------------------------------------------
(* memory.search and memory.get                                            *)

\* mutant: the list of matching ids is not cut, list(matching_ids)
Slice_NoTruncate(s, k) == s

\* seq[:k] of Python
Slice(s, k) ==
    LET n == IF k >= 0 THEN (IF k < Len(s) THEN k ELSE Len(s))
                       ELSE (IF Len(s) + k > 0 THEN Len(s) + k ELSE 0)
    IN  SubSeq(s, 1, n)

\* the orders list(a_set) can come out in
Orders(S) ==
    {s \in [1..Cardinality(S) -> S] : \A i, j \in 1..Cardinality(S) :
                                          i # j => s[i] # s[j]}

\* mutant: the test the other way round, `keyword in query_lower`
MatchingIds_Reversed(index, query_lower) ==
    UNION {Range(index[k]) : k \in {x \in DOMAIN index :
                                       IsSubstring(x, query_lower)}}

\* lines 184-187: the ids under every keyword that contains the query
MatchingIds(index, query_lower) ==
    UNION {Range(index[k]) : k \in {x \in DOMAIN index :
                                       IsSubstring(query_lower, x)}}

\* lines 190-198: load the items of the ids in turn; a missing one is skipped
RECURSIVE LoadResults(_, _)
LoadResults(its, ids) ==
    IF ids = <<>> THEN Ok(<<>>)
    ELSE LET f == ItemFile(its, Head(ids))
         IN  IF ~exists(f) THEN LoadResults(its, Tail(ids))
             ELSE LET item == json_load(f)
                  IN  IF ~item.ok THEN item
                      ELSE LET rest == LoadResults(its, Tail(ids))
                           IN  IF ~rest.ok THEN rest
                               ELSE Ok(<<[id |-> item.val.id,
                                          content |-> item.val.content,
                                          keywords |-> item.val.keywords]>>
                                       \o rest.val)

\* mutant: only the empty query is turned away, `if not query:`
search_execute_NoStripCheck(its, ixf, a) ==
    LET query == a.query
        top_k == IF "top_k" \in DOMAIN a THEN a.top_k ELSE 5
    IN  IF query = <<>>
        THEN {Ok([results |-> <<>>, count |-> 0])}
        ELSE LET index == IF exists(ixf) THEN json_load(ixf)
                                         ELSE Ok(EmptyDict)
             IN  IF ~index.ok THEN {index}
                 ELSE {LET r == LoadResults(its, Slice(order, top_k))
                       IN  IF ~r.ok THEN r
                           ELSE Ok([results |-> r.val, count |-> Len(r.val)])
                       : order \in Orders(MatchingIds(index.val, Lower(query)))}

\* MemorySearchTool.execute: the set of outcomes it can have
search_execute(its, ixf, a) ==
    LET query == a.query
        top_k == IF "top_k" \in DOMAIN a THEN a.top_k ELSE 5
    IN  IF query = <<>> \/ IsBlank(query)
        THEN {Ok([results |-> <<>>, count |-> 0])}
        ELSE LET index == IF exists(ixf) THEN json_load(ixf)
                                         ELSE Ok(EmptyDict)
             IN  IF ~index.ok THEN {index}
                 ELSE {LET r == LoadResults(its, Slice(order, top_k))
                       IN  IF ~r.ok THEN r
                           ELSE Ok([results |-> r.val, count |-> Len(r.val)])
                       : order \in Orders(MatchingIds(index.val, Lower(query)))}

\* MemoryGetTool.execute
get_execute(its, a) ==
    IF a.memory_id = ""
    THEN Raise(Exc("ValueError", <<"memory_id is required">>))
    ELSE LET f == ItemFile(its, a.memory_id)
         IN  IF ~exists(f) THEN Ok([memory |-> JNull])
             ELSE LET item == json_load(f)
                  IN  IF ~item.ok THEN item
                      ELSE Ok([memory |-> item.val])

----------------------------------------------------------------------------
(* The dispatcher: mcp.py.                                                 *)

\* MCPProtocol._make_response
make_response(request_id, result) ==
    [jsonrpc |-> "2.0", id |-> request_id, result |-> result]

\* mutant: the error response loses the id of the request
make_error_response_NoId(request_id, error) ==
    [jsonrpc |-> "2.0", id |-> NoneV, error |-> to_dict(error)]

\* MCPProtocol._make_error_response
make_error_response(request_id, error) ==
    [jsonrpc |-> "2.0", id |-> request_id, error |-> to_dict(error)]

\* mutant: initialize hands the params of the client back as capabilities
handle_initialize_EchoParams(params) ==
    [protocolVersion |-> "2024-11-05",
     capabilities |-> params,
     serverInfo |-> [name |-> "mcp-server", version |-> "0.1.0"]]

\* the result of MCPProtocol._handle_initialize
handle_initialize(params) ==
    [protocolVersion |-> "2024-11-05",
     capabilities |-> [tools |-> EmptyDict],
     serverInfo |-> [name |-> "mcp-server", version |-> "0.1.0"]]

\* mutant: the handler for any exception comes first and takes MCPError too
Respond_AllInternal(request_id, outcome) ==
    IF outcome.ok
    THEN make_response(request_id, outcome.val)
    ELSE make_error_response(request_id,
                             MCPError(INTERNAL_ERROR, outcome.exc.msg))

\* lines 113-120 of handle_request: the response for what the routed
\* handler returned or raised
Respond(request_id, outcome) ==
    IF outcome.ok
    THEN make_response(request_id, outcome.val)
    ELSE IF IsMCPError(outcome.exc)
         THEN make_error_response(request_id, outcome.exc)
         ELSE make_error_response(request_id,
                                  MCPError(INTERNAL_ERROR, outcome.exc.msg))

\* mutant: the name is looked up without the check of line 75
LookupTool_NoNameCheck(tls, params) ==
    IF ~IsDict(params)
    THEN Raise(Exc("AttributeError", <<"object has no attribute 'get'">>))
    ELSE LET name      == Get(params.v, "name", NoneV)
             arguments == Get(params.v, "arguments", JObj(EmptyDict))
         IN  IF name \notin Range(tls)
             THEN Raise(MCPError(METHOD_NOT_FOUND, <<"Tool not found: ", name>>))
             ELSE Ok([name |-> name, arguments |-> arguments])

\* lines 72-80 of call_tool: the tool a tools/call names
LookupTool(tls, params) ==
    IF ~IsDict(params)
    THEN Raise(Exc("AttributeError", <<"object has no attribute 'get'">>))
    ELSE LET name      == Get(params.v, "name", NoneV)
             arguments == Get(params.v, "arguments", JObj(EmptyDict))
         IN  IF name = NoneV \/ name = ""
             THEN Raise(MCPError(INVALID_PARAMS, <<"Missing tool name">>))
             ELSE IF name \notin Range(tls)
             THEN Raise(MCPError(METHOD_NOT_FOUND, <<"Tool not found: ", name>>))
             ELSE Ok([name |-> name, arguments |-> arguments])

\* mutant: an MCPError a tool raises passes through with its own code
WrapToolOutcome_PassMCPError(o) ==
    IF o.ok
    THEN Ok([content |-> <<[type |-> "text", text |-> json_dumps(o.val)]>>])
    ELSE IF IsMCPError(o.exc) THEN Raise(o.exc)
         ELSE Raise(MCPError(INTERNAL_ERROR, o.exc.msg))

\* lines 82-91 of call_tool: what becomes of the outcome of tool.execute
WrapToolOutcome(o) ==
    IF o.ok
    THEN Ok([content |-> <<[type |-> "text", text |-> json_dumps(o.val)]>>])
    ELSE Raise(MCPError(INTERNAL_ERROR, o.exc.msg))

\* the outcomes of tool.execute(**arguments) for the tools that run in one
\* step, and of memory.write when it raises before touching the store
ToolOutcomes(name, arguments, its, ixf) ==
    LET b == BindArguments(name, arguments)
    IN  IF ~b.ok THEN {b}
        ELSE CASE name = "memory.search" -> search_execute(its, ixf, b.val)
               [] name = "memory.get"    -> {get_execute(its, b.val)}
               [] name = "memory.write"  ->
                    IF b.val.content = <<>>
                    THEN {Raise(Exc("ValueError", <<"content is required">>))}
                    ELSE {}
               [] OTHER -> {Raise(e) : e \in ToolFailures}

\* mutant: a line that does not parse is reported as an internal error
ParseErrorResponse_Internal(e) ==
    make_error_response(NoneV, MCPError(INTERNAL_ERROR, e.msg))

\* lines 221-223 of run (190-192 of run_async): the response to a line
\* json.loads rejects
ParseErrorResponse(e) ==
    make_error_response(NoneV, MCPError(PARSE_ERROR, e.msg))

\* the fields handle_request reads off the request, lines 95-97
request_id == Get(request.v, "id", NoneV)
method     == Get(request.v, "method", NoneV)
params     == Get(request.v, "params", JObj(EmptyDict))

Methods == {"initialize", "tools/list", "tools/call", "shutdown"}

----------------------------------------------------------------------------
(* The input lines the model feeds the loop.                               *)

Contents == {<<>>, <<"H", "a", "t">>, <<"a", "b", " ", "T", "a", "b", "!">>}
TagLists == {<< <<"T", " ", "a">> >>}
Queries  == {<<" ">>, <<"H", "a">>, <<"t", "a", "b", "1">>}
TopKs    == {1, -1}

WriteArguments ==
    {[content |-> c] : c \in Contents}
    \cup {[content |-> <<"H", "a", "t">>, tags |-> t] :
             t \in TagLists \cup {<<NotAString>>}}

SearchArguments ==
    {[query |-> q] : q \in Queries \cup {<<>>}}
    \cup {[query |-> q, top_k |-> k] : q \in {<<"H", "a">>, <<" ">>},
                                       k \in TopKs}

GetArguments == {[memory_id |-> m] : m \in MemIds \cup {""}}

ToolCallParams ==
    {JNull, JObj(EmptyDict), JObj([name |-> ""]), JObj([name |-> "nope"]),
     JObj([name |-> "memory.write"]),
     JObj([name |-> "memory.get", arguments |-> JArr]),
     JObj([name |-> "failing.tool"])}
    \cup {JObj([name |-> "memory.write", arguments |-> JObj(a)]) :
             a \in WriteArguments}
    \cup {JObj([name |-> "memory.search", arguments |-> JObj(a)]) :
             a \in SearchArguments}
    \cup {JObj([name |-> "memory.get", arguments |-> JObj(a)]) :
             a \in GetArguments}

\* the request bodies, without their id
Bodies ==
    {EmptyDict, [method |-> "initialize"], [method |-> "tools/list"],
     [method |-> "shutdown"], [method |-> "foo"], [method |-> "tools/call"],
     [method |-> "initialize", params |-> JNull]}
    \cup {[method |-> "tools/call", params |-> p] : p \in ToolCallParams}

RequestIds == {"7"}

\* every body with an id, and some without
Requests ==
    {Put(r, "id", i) : r \in Bodies, i \in RequestIds}
    \cup {EmptyDict, [method |-> "initialize"], [method |-> "shutdown"],
          [method |-> "tools/call"], [method |-> "tools/call",
                                      params |-> JObj([name |-> "nope"])],
          [method |-> "tools/call",
           params |-> JObj([name |-> "failing.tool"])],
          [method |-> "tools/list", id |-> NoneV]}

\* a line of text is given by how it reads: end of stream, only white space,
\* no JSON text, or the text of a JSON value
Malformed == [t |-> "malformed"]
NoRequest == [t |-> "none"]

Lines ==
    {[kind |-> "eof"], [kind |-> "blank"],
     [kind |-> "text", text |-> Malformed], [kind |-> "text", text |-> JArr]}
    \cup {[kind |-> "text", text |-> JObj(r)] : r \in Requests}

\* json.loads(line)
json_loads(line) ==
    IF line.text.t = "malformed"
    THEN Raise(Exc("JSONDecodeError", <<"Expecting value">>))
    ELSE Ok(line.text)

\* a line that makes memory.write draw a memory id
DrawsId(line) ==
    /\ line.kind = "text"
    /\ IsDict(line.text)
    /\ Get(line.text.v, "method", NoneV) = "tools/call"
    /\ "params" \in DOMAIN line.text.v
    /\ IsDict(line.text.v.params)
    /\ Get(line.text.v.params.v, "name", NoneV) = "memory.write"

\* the lines the bounds still allow
Offered ==
    {l \in Lines :
        /\ l.kind # "eof" => nread < MaxLines
        /\ DrawsId(l) => MemIds \ DOMAIN items # {}}

----------------------------------------------------------------------------
(* Initial state: MCPServer.__init__ has built the MCPProtocol and         *)
(* registered the three memory tools; the data directory is empty.         *)

NoWrite == [active |-> FALSE]
NoCall  == [op |-> "none"]
NoWriters == <<>>

Init ==
    /\ pc = "init"
    /\ running = FALSE
    /\ initialized = FALSE
    /\ tools = ServerTools
    /\ request = NoRequest
    /\ response = EmptyDict
    /\ output = <<>>
    /\ nread = 0
    /\ curLine = 0
    /\ items = EmptyDict
    /\ indexFile = Absent
    /\ tmpFile = Absent
    /\ wr = NoWrite
    /\ regops = 0
    /\ crashes = 0
    /\ written = EmptyDict
    /\ call = NoCall
    /\ writers = NoWriters

----------------------------------------------------------------------------
(* Registration, before the loop runs.                                     *)

RegisterTool ==
    /\ pc = "init"
    /\ regops < MaxRegOps
    /\ \E name \in ToolNames :
          /\ tools' = register_tool(tools, name)
          /\ call' = [op |-> "register", name |-> name, ret |-> NoneV]
    /\ regops' = regops + 1
    /\ UNCHANGED <<pc, running, initialized, request, response, output,
                   nread, curLine, items, indexFile, tmpFile, wr, crashes>>
    /\ UNCHANGED written
    /\ UNCHANGED writers

UnregisterTool ==
    /\ pc = "init"
    /\ regops < MaxRegOps
    /\ \E name \in ToolNames :
          /\ tools' = IF name \in Range(tools)
                       THEN unregister_tool(tools, name)
                       ELSE tools
          /\ call' = [op |-> "unregister", name |-> name,
                      ret |-> IF name \in Range(tools) THEN "True"
                                                       ELSE "False"]
    /\ regops' = regops + 1
    /\ UNCHANGED <<pc, running, initialized, request, response, output,
                   nread, curLine, items, indexFile, tmpFile, wr, crashes>>
    /\ UNCHANGED written
    /\ UNCHANGED writers

----------------------------------------------------------------------------
(* MCPProtocol.run, lines 201-230.                                         *)

\* line 203
Run ==
    /\ pc = "init"
    /\ running' = TRUE
    /\ pc' = "read"
    /\ UNCHANGED <<initialized, tools, request, response, output, nread,
                   curLine, items, indexFile, tmpFile, wr, regops, crashes>>
    /\ call' = NoCall
    /\ UNCHANGED written
    /\ UNCHANGED writers

\* mutant: the end of the stream is skipped like an empty line, `continue`
ReadLine_EofContinues ==
    /\ pc = "read"
    /\ running
    /\ \E line \in Offered :
          IF line.kind = "eof"
          THEN /\ pc' = "read"
               /\ UNCHANGED <<request, response, nread, curLine>>
          ELSE /\ nread' = nread + 1
               /\ IF line.kind = "blank"
                  THEN /\ pc' = "read"
                       /\ UNCHANGED <<request, response, curLine>>
                  ELSE LET parsed == json_loads(line)
                       IN  /\ curLine' = nread'
                           /\ IF parsed.ok
                              THEN /\ request' = parsed.val
                                   /\ pc' = "dispatch"
                                   /\ UNCHANGED response
                              ELSE /\ response' = ParseErrorResponse(parsed.exc)
                                   /\ pc' = "write"
                                   /\ UNCHANGED request
    /\ UNCHANGED <<running, initialized, tools, output, items, indexFile,
                   tmpFile, wr, regops, crashes>>
    /\ UNCHANGED <<written, call, writers>>

\* lines 206-216 and, for a line json.loads rejects, lines 221-223
ReadLine ==
    /\ pc = "read"
    /\ running
    /\ \E line \in Offered :
          IF line.kind = "eof"
          THEN /\ pc' = "stopped"
               /\ UNCHANGED <<request, response, nread, curLine>>
          ELSE /\ nread' = nread + 1
               /\ IF line.kind = "blank"
                  THEN /\ pc' = "read"
                       /\ UNCHANGED <<request, response, curLine>>
                  ELSE LET parsed == json_loads(line)
                       IN  /\ curLine' = nread'
                           /\ IF parsed.ok
                              THEN /\ request' = parsed.val
                                   /\ pc' = "dispatch"
                                   /\ UNCHANGED response
                              ELSE /\ response' = ParseErrorResponse(parsed.exc)
                                   /\ pc' = "write"
                                   /\ UNCHANGED request
    /\ UNCHANGED <<running, initialized, tools, output, items, indexFile,
                   tmpFile, wr, regops, crashes>>
    /\ UNCHANGED <<written, call, writers>>

\* line 206 when a shutdown has cleared _running
LoopExit ==
    /\ pc = "read"
    /\ ~running
    /\ pc' = "stopped"
    /\ UNCHANGED <<running, initialized, tools, request, response, output,
                   nread, curLine, items, indexFile, tmpFile, wr, regops,
                   crashes>>
    /\ UNCHANGED <<written, call, writers>>

\* mutant: the response is put in front of what was written before
WriteResponse_Prepend ==
    /\ pc = "write"
    /\ output' = <<[line |-> curLine]>> \o output
    /\ pc' = "read"
    /\ request' = NoRequest
    /\ response' = EmptyDict
    /\ UNCHANGED <<running, initialized, tools, nread, curLine, items,
                   indexFile, tmpFile, wr, regops, crashes>>
    /\ UNCHANGED <<written, call, writers>>

\* lines 218-219 and 224-225
WriteResponse ==
    /\ pc = "write"
    /\ output' = Append(output, [line |-> curLine])
    /\ pc' = "read"
    /\ request' = NoRequest
    /\ response' = EmptyDict
    /\ UNCHANGED <<running, initialized, tools, nread, curLine, items,
                   indexFile, tmpFile, wr, regops, crashes>>
    /\ UNCHANGED <<written, call, writers>>

----------------------------------------------------------------------------
(* MCPProtocol.handle_request, lines 93-120.                               *)

\* request.get raises AttributeError at line 95, outside the try of
\* handle_request; run catches it at line 226 and breaks
HandleNonObject ==
    /\ pc = "dispatch"
    /\ ~IsDict(request)
    /\ pc' = "stopped"
    /\ UNCHANGED <<running, initialized, tools, request, response, output,
                   nread, curLine, items, indexFile, tmpFile, wr, regops,
                   crashes>>
    /\ UNCHANGED <<written, call, writers>>

HandleInitialize ==
    /\ pc = "dispatch"
    /\ IsDict(request)
    /\ method = "initialize"
    /\ initialized' = TRUE
    /\ response' = Respond(request_id, Ok(handle_initialize(params)))
    /\ pc' = "write"
    /\ UNCHANGED <<running, tools, request, output, nread, curLine, items,
                   indexFile, tmpFile, wr, regops, crashes>>
    /\ UNCHANGED <<written, call, writers>>

\* mutant: tools/list is refused until initialize has been received
HandleToolsList_RequiresInit ==
    /\ pc = "dispatch"
    /\ IsDict(request)
    /\ method = "tools/list"
    /\ response' =
          Respond(request_id,
                  IF initialized
                  THEN Ok(list_tools(tools))
                  ELSE Raise(MCPError(INVALID_REQUEST,
                                      <<"Server not initialized">>)))
    /\ pc' = "write"
    /\ UNCHANGED <<running, initialized, tools, request, output, nread,
                   curLine, items, indexFile, tmpFile, wr, regops, crashes>>
    /\ UNCHANGED <<written, call, writers>>

HandleToolsList ==
    /\ pc = "dispatch"
    /\ IsDict(request)
    /\ method = "tools/list"
    /\ response' = Respond(request_id, Ok(list_tools(tools)))
    /\ pc' = "write"
    /\ UNCHANGED <<running, initialized, tools, request, output, nread,
                   curLine, items, indexFile, tmpFile, wr, regops, crashes>>
    /\ UNCHANGED <<written, call, writers>>

\* mutant: shutdown answers but leaves _running set
HandleShutdown_KeepsRunning ==
    /\ pc = "dispatch"
    /\ IsDict(request)
    /\ method = "shutdown"
    /\ response' = Respond(request_id, Ok(EmptyDict))
    /\ pc' = "write"
    /\ UNCHANGED <<running, initialized, tools, request, output, nread,
                   curLine, items, indexFile, tmpFile, wr, regops, crashes>>
    /\ UNCHANGED <<written, call, writers>>

\* MCPProtocol._handle_shutdown
HandleShutdown ==
    /\ pc = "dispatch"
    /\ IsDict(request)
    /\ method = "shutdown"
    /\ running' = FALSE
    /\ response' = Respond(request_id, Ok(EmptyDict))
    /\ pc' = "write"
    /\ UNCHANGED <<initialized, tools, request, output, nread, curLine,
                   items, indexFile, tmpFile, wr, regops, crashes>>
    /\ UNCHANGED <<written, call, writers>>

\* line 111
HandleUnknown ==
    /\ pc = "dispatch"
    /\ IsDict(request)
    /\ method \notin Methods
    /\ response' = Respond(request_id,
                       Raise(MCPError(METHOD_NOT_FOUND,
                                      <<"Unknown method: ", method>>)))
    /\ pc' = "write"
    /\ UNCHANGED <<running, initialized, tools, request, output, nread,
                   curLine, items, indexFile, tmpFile, wr, regops, crashes>>
    /\ UNCHANGED <<written, call, writers>>

\* tools/call that call_tool refuses before any tool runs, lines 72-80
CallToolRefused ==
    /\ pc = "dispatch"
    /\ IsDict(request)
    /\ method = "tools/call"
    /\ ~LookupTool(tools, params).ok
    /\ response' = Respond(request_id, LookupTool(tools, params))
    /\ pc' = "write"
    /\ UNCHANGED <<running, initialized, tools, request, output, nread,
                   curLine, items, indexFile, tmpFile, wr, regops, crashes>>
    /\ UNCHANGED <<written, call, writers>>

\* tools/call of a tool whose execute returns or raises in one step
CallToolExecute ==
    /\ pc = "dispatch"
    /\ IsDict(request)
    /\ method = "tools/call"
    /\ LookupTool(tools, params).ok
    /\ LET t == LookupTool(tools, params).val
       IN  \E o \in ToolOutcomes(t.name, t.arguments, items, indexFile) :
              response' = Respond(request_id, WrapToolOutcome(o))
    /\ pc' = "write"
    /\ UNCHANGED <<running, initialized, tools, request, output, nread,
                   curLine, items, indexFile, tmpFile, wr, regops, crashes>>
    /\ UNCHANGED <<written, call, writers>>

----------------------------------------------------------------------------
(* MemoryWriteTool.execute and _update_keyword_index, one file operation   *)
(* per step.                                                               *)

\* mutant: memory.write goes on to store the item without the check of
\* lines 60-61
WriteBegin_NoContentCheck ==
    /\ pc = "dispatch"
    /\ IsDict(request)
    /\ method = "tools/call"
    /\ LookupTool(tools, params).ok
    /\ LET t == LookupTool(tools, params).val
           b == BindArguments(t.name, t.arguments)
       IN  /\ t.name = "memory.write"
           /\ b.ok
           /\ MemIds \ DOMAIN items # {}
           /\ wr' = [active |-> TRUE, args |-> b.val,
                     item |-> NewItem(generate_memory_id(items), b.val),
                     index |-> EmptyDict]
    /\ pc' = "mw_open"
    /\ UNCHANGED <<running, initialized, tools, request, response, output,
                   nread, curLine, items, indexFile, tmpFile, regops, crashes>>
    /\ UNCHANGED <<written, call, writers>>

\* lines 60-72: the arguments are accepted, the id is drawn and the item
\* is built
WriteBegin ==
    /\ pc = "dispatch"
    /\ IsDict(request)
    /\ method = "tools/call"
    /\ LookupTool(tools, params).ok
    /\ LET t == LookupTool(tools, params).val
           b == BindArguments(t.name, t.arguments)
       IN  /\ t.name = "memory.write"
           /\ b.ok
           /\ b.val.content # <<>>
           /\ MemIds \ DOMAIN items # {}
           /\ wr' = [active |-> TRUE, args |-> b.val,
                     item |-> NewItem(generate_memory_id(items), b.val),
                     index |-> EmptyDict]
    /\ pc' = "mw_open"
    /\ UNCHANGED <<running, initialized, tools, request, response, output,
                   nread, curLine, items, indexFile, tmpFile, regops, crashes>>
    /\ UNCHANGED <<written, call, writers>>

\* mutant: the index is updated without the item file being written
ItemOpen_Skipped ==
    /\ pc = "mw_open"
    /\ pc' = "ix_load"
    /\ UNCHANGED <<running, initialized, tools, request, response, output,
                   nread, curLine, items, indexFile, tmpFile, wr, regops,
                   crashes>>
    /\ UNCHANGED <<written, call, writers>>

\* line 80: open(item_path, "w") creates the file, empty
ItemOpen ==
    /\ pc = "mw_open"
    /\ items' = Put(items, wr.item.id, PartialFile)
    /\ pc' = "mw_dump"
    /\ UNCHANGED <<running, initialized, tools, request, response, output,
                   nread, curLine, indexFile, tmpFile, wr, regops, crashes>>
    /\ UNCHANGED <<written, call, writers>>

\* line 81 and the close of the file: the text of the item is all there
ItemDump ==
    /\ pc = "mw_dump"
    /\ items' = Put(items, wr.item.id, FullFile(wr.item))
    /\ pc' = "ix_load"
    /\ UNCHANGED <<running, initialized, tools, request, response, output,
                   nread, curLine, indexFile, tmpFile, wr, regops, crashes>>
    /\ UNCHANGED <<written, call, writers>>

\* lines 93-106: load the index and add the item in memory
IndexLoad ==
    /\ pc = "ix_load"
    /\ LET cur == IF exists(indexFile) THEN json_load(indexFile)
                                       ELSE Ok(EmptyDict)
           upd == UpdatedIndex(cur, wr.item)
       IN  IF upd.ok
           THEN /\ wr' = [wr EXCEPT !.index = upd.val]
                /\ pc' = "ix_open"
                /\ UNCHANGED response
           ELSE /\ response' = Respond(request_id, WrapToolOutcome(upd))
                /\ wr' = NoWrite
                /\ pc' = "write"
    /\ UNCHANGED <<running, initialized, tools, request, output, nread,
                   curLine, items, indexFile, tmpFile, regops, crashes>>
    /\ UNCHANGED <<written, call, writers>>

\* mutant: the index is written in place, open(index_path, "w")
IndexTmpOpen_InPlace ==
    /\ pc = "ix_open"
    /\ indexFile' = PartialFile
    /\ pc' = "ix_dump"
    /\ UNCHANGED <<running, initialized, tools, request, response, output,
                   nread, curLine, items, tmpFile, wr, regops, crashes>>
    /\ UNCHANGED <<written, call, writers>>

\* line 110: open(temp_path, "w")
IndexTmpOpen ==
    /\ pc = "ix_open"
    /\ tmpFile' = PartialFile
    /\ pc' = "ix_dump"
    /\ UNCHANGED <<running, initialized, tools, request, response, output,
                   nread, curLine, items, indexFile, wr, regops, crashes>>
    /\ UNCHANGED <<written, call, writers>>

\* line 111 and the close of the temporary file
IndexTmpDump ==
    /\ pc = "ix_dump"
    /\ tmpFile' = FullFile(wr.index)
    /\ pc' = "ix_replace"
    /\ UNCHANGED <<running, initialized, tools, request, response, output,
                   nread, curLine, items, indexFile, wr, regops, crashes>>
    /\ UNCHANGED <<written, call, writers>>

\* line 112, os.replace, then line 86 and the way back through call_tool
\* and handle_request
IndexReplace ==
    /\ pc = "ix_replace"
    /\ indexFile' = tmpFile
    /\ tmpFile' = Absent
    /\ response' = Respond(request_id,
                       WrapToolOutcome(Ok([memory_id |-> wr.item.id,
                                           success |-> TRUE])))
    /\ wr' = NoWrite
    /\ pc' = "write"
    /\ UNCHANGED <<running, initialized, tools, request, output, nread,
                   curLine, items, regops, crashes>>
    /\ written' = Put(written, wr.item.id, wr.args)
    /\ UNCHANGED call
    /\ UNCHANGED writers

----------------------------------------------------------------------------
(* The process dies at any point of the loop and a new one is started on   *)
(* the same data directory.                                                *)

InLoop == {"read", "dispatch", "write", "mw_open", "mw_dump", "ix_load",
           "ix_open", "ix_dump", "ix_replace"}

Crash ==
    /\ pc \in InLoop
    /\ crashes < MaxCrashes
    /\ crashes' = crashes + 1
    /\ pc' = "crashed"
    /\ running' = FALSE
    /\ initialized' = FALSE
    /\ request' = NoRequest
    /\ response' = EmptyDict
    /\ wr' = NoWrite
    /\ UNCHANGED <<tools, output, nread, curLine, items, indexFile, tmpFile,
                   regops>>
    /\ UNCHANGED <<written, call, writers>>

\* main(): a new MCPServer registers the three memory tools and runs
Restart ==
    /\ pc = "crashed"
    /\ tools' = ServerTools
    /\ running' = TRUE
    /\ pc' = "read"
    /\ output' = <<>>
    /\ curLine' = 0
    /\ UNCHANGED <<initialized, request, response, nread, items, indexFile,
                   tmpFile, wr, regops, crashes>>
    /\ UNCHANGED <<written, call, writers>>

----------------------------------------------------------------------------

Next ==
    \/ RegisterTool
    \/ UnregisterTool
    \/ Run
    \/ ReadLine
    \/ LoopExit
    \/ WriteResponse
    \/ HandleNonObject
    \/ HandleInitialize
    \/ HandleToolsList
    \/ HandleShutdown
    \/ HandleUnknown
    \/ CallToolRefused
    \/ CallToolExecute
    \/ WriteBegin
    \/ ItemOpen
    \/ ItemDump
    \/ IndexLoad
    \/ IndexTmpOpen
    \/ IndexTmpDump
    \/ IndexReplace
    \/ Crash
    \/ Restart

Spec == Init /\ [][Next]_vars

----------------------------------------------------------------------------
(* The read loop of one server process that is left to run: main() calls   *)
(* run(), and the single thread takes the next step of the loop whenever   *)
(* there is one; stdin holds at most MaxLines lines and then its end.      *)

LoopNext ==
    \/ Run
    \/ ReadLine
    \/ LoopExit
    \/ WriteResponse
    \/ HandleNonObject
    \/ HandleInitialize
    \/ HandleToolsList
    \/ HandleShutdown
    \/ HandleUnknown
    \/ CallToolRefused
    \/ CallToolExecute
    \/ WriteBegin
    \/ ItemOpen
    \/ ItemDump
    \/ IndexLoad
    \/ IndexTmpOpen
    \/ IndexTmpDump
    \/ IndexReplace

LoopSpec == Init /\ [][LoopNext]_vars /\ WF_vars(LoopNext)

----------------------------------------------------------------------------
(* Two server processes on one data directory, each inside one             *)
(* MemoryWriteTool.execute.  The items directory, keyword.json and         *)
(* keyword.json.tmp are shared; the item, the loaded index and the open    *)
(* file of the temporary path are local to a process.  The steps are those *)
(* of the single writer above, with what the file system does when the     *)
(* other process has touched the same path in between.                     *)

Writers == {1, 2}

Peer(w) == 3 - w

\* the id a process draws: the two draws differ
WriterId(w) == MemIdPool[w]

\* the contents and tags the two calls may carry
WriterArguments == {a \in WriteArguments : a.content # <<>>}

\* the values a process holds before line 63
WriterStart(a) ==
    [pc |-> "begin", args |-> a, item |-> NoneV, index |-> EmptyDict,
     fd |-> "closed", overlap |-> FALSE, result |-> "none"]

\* a process has loaded the index and not yet replaced it
InUpdate(w) == writers[w].pc \in {"ix_open", "ix_dump", "ix_replace"}

single == <<pc, running, initialized, tools, request, response, output,
            nread, curLine, wr, regops, crashes, written, call>>

TwoWriterInit ==
    /\ pc = "dispatch"
    /\ running = TRUE
    /\ initialized = FALSE
    /\ tools = ServerTools
    /\ request = NoRequest
    /\ response = EmptyDict
    /\ output = <<>>
    /\ nread = 1
    /\ curLine = 1
    /\ items = EmptyDict
    /\ indexFile = Absent
    /\ tmpFile = Absent
    /\ wr = NoWrite
    /\ regops = 0
    /\ crashes = 0
    /\ written = EmptyDict
    /\ call = NoCall
    /\ \E a1, a2 \in WriterArguments :
          writers = [w \in Writers |-> WriterStart(IF w = 1 THEN a1 ELSE a2)]

\* lines 63-72: the id is drawn and the item built
W_Begin(w) ==
    /\ writers[w].pc = "begin"
    /\ writers' = [writers EXCEPT
                      ![w].item = NewItem(WriterId(w), writers[w].args),
                      ![w].pc = "mw_open"]
    /\ UNCHANGED <<items, indexFile, tmpFile, single>>

\* line 80: open(item_path, "w")
W_ItemOpen(w) ==
    /\ writers[w].pc = "mw_open"
    /\ items' = Put(items, writers[w].item.id, PartialFile)
    /\ writers' = [writers EXCEPT ![w].pc = "mw_dump"]
    /\ UNCHANGED <<indexFile, tmpFile, single>>

\* line 81 and the close of the item file
W_ItemDump(w) ==
    /\ writers[w].pc = "mw_dump"
    /\ items' = Put(items, writers[w].item.id, FullFile(writers[w].item))
    /\ writers' = [writers EXCEPT ![w].pc = "ix_load"]
    /\ UNCHANGED <<indexFile, tmpFile, single>>

\* mutant: the update starts from an empty index, the file is not loaded
W_IndexLoad_StartsEmpty(w) ==
    /\ writers[w].pc = "ix_load"
    /\ LET upd == UpdatedIndex(Ok(EmptyDict), writers[w].item)
       IN  writers' =
              IF upd.ok
              THEN [writers EXCEPT
                       ![w].index = upd.val,
                       ![w].overlap = InUpdate(Peer(w)),
                       ![w].pc = "ix_open"]
              ELSE [writers EXCEPT ![w].result = "error", ![w].pc = "done"]
    /\ UNCHANGED <<items, indexFile, tmpFile, single>>

\* lines 93-106: load the index file as it is now and add the item in
\* memory; `overlap` records that the other process was between its own
\* load and its replace at that moment
W_IndexLoad(w) ==
    /\ writers[w].pc = "ix_load"
    /\ LET cur == IF exists(indexFile) THEN json_load(indexFile)
                                       ELSE Ok(EmptyDict)
           upd == UpdatedIndex(cur, writers[w].item)
       IN  writers' =
              IF upd.ok
              THEN [writers EXCEPT
                       ![w].index = upd.val,
                       ![w].overlap = InUpdate(Peer(w)),
                       ![w].pc = "ix_open"]
              ELSE [writers EXCEPT ![w].result = "error", ![w].pc = "done"]
    /\ UNCHANGED <<items, indexFile, tmpFile, single>>

\* line 110: open(temp_path, "w") makes the file or empties the one that
\* is there, the one the other process may have open
W_TmpOpen(w) ==
    /\ writers[w].pc = "ix_open"
    /\ tmpFile' = PartialFile
    /\ writers' = [writers EXCEPT ![w].fd = "tmp", ![w].pc = "ix_dump"]
    /\ UNCHANGED <<items, indexFile, single>>

\* what a file holds after a process has written its index from offset 0:
\* its index when the file was empty; when the other process has written
\* the same file meanwhile the two texts overlay, which gives this index or
\* a text that does not parse
Overlaid(f, index) ==
    IF f.partial THEN {FullFile(index)} ELSE {FullFile(index), PartialFile}

\* line 111 and the close: the text goes to the file the process opened,
\* which the other process may have renamed to keyword.json meanwhile
W_TmpDump(w) ==
    /\ writers[w].pc = "ix_dump"
    /\ IF writers[w].fd = "tmp"
       THEN /\ tmpFile' \in Overlaid(tmpFile, writers[w].index)
            /\ UNCHANGED indexFile
       ELSE /\ indexFile' \in Overlaid(indexFile, writers[w].index)
            /\ UNCHANGED tmpFile
    /\ writers' = [writers EXCEPT ![w].fd = "closed", ![w].pc = "ix_replace"]
    /\ UNCHANGED <<items, single>>

\* line 112, os.replace(temp_path, index_path), and line 86: with the
\* temporary path gone the call raises FileNotFoundError; otherwise the
\* file under the temporary path, whatever it holds, becomes keyword.json,
\* and so does the open file of the other process
W_Replace(w) ==
    /\ writers[w].pc = "ix_replace"
    /\ IF ~exists(tmpFile)
       THEN /\ writers' = [writers EXCEPT ![w].result = "error",
                                          ![w].pc = "done"]
            /\ UNCHANGED <<indexFile, tmpFile>>
       ELSE /\ indexFile' = tmpFile
            /\ tmpFile' = Absent
            /\ writers' =
                  [v \in Writers |->
                      IF v = w
                      THEN [writers[v] EXCEPT !.result = "success",
                                              !.pc = "done"]
                      ELSE IF writers[v].fd = "tmp"
                           THEN [writers[v] EXCEPT !.fd = "index"]
                           ELSE writers[v]]
    /\ UNCHANGED <<items, single>>

TwoWriterNext ==
    \E w \in Writers :
        \/ W_Begin(w)
        \/ W_ItemOpen(w)
        \/ W_ItemDump(w)
        \/ W_IndexLoad(w)
        \/ W_TmpOpen(w)
        \/ W_TmpDump(w)
        \/ W_Replace(w)

TwoWriterSpec == TwoWriterInit /\ [][TwoWriterNext]_vars

----------------------------------------------------------------------------
(* memory.search on its own: one tools/call of memory.search is            *)
(* dispatched against the store that n successful writes of the same       *)
(* content leave behind, for every n up to MaxStored, so that more ids     *)
(* match than the default top_k lets through.                              *)

\* the items directory and the index after n memory.write calls of "Hat"
RECURSIVE StoreAfter(_)
StoreAfter(n) ==
    IF n = 0 THEN [items |-> EmptyDict, index |-> EmptyDict]
    ELSE LET before == StoreAfter(n - 1)
             item   == NewItem(MemIdPool[n], [content |-> <<"H", "a", "t">>])
         IN  [items |-> Put(before.items, item.id, FullFile(item)),
              index |-> AddToIndex(before.index, item)]

\* the arguments of the search: top_k left out, negative, zero, small
SearchCalls ==
    {[query |-> <<"H", "a">>]}
    \cup {[query |-> <<"H", "a">>, top_k |-> k] : k \in {-1, 0, 1, 2}}
    \cup {[query |-> <<" ">>, top_k |-> -1]}

SearchInit ==
    /\ pc = "dispatch"
    /\ running = TRUE
    /\ initialized = FALSE
    /\ tools = ServerTools
    /\ \E a \in SearchCalls :
          request = JObj([id |-> "7", method |-> "tools/call",
                          params |-> JObj([name |-> "memory.search",
                                           arguments |-> JObj(a)])])
    /\ response = EmptyDict
    /\ output = <<>>
    /\ nread = 1
    /\ curLine = 1
    /\ \E n \in 0..MaxStored :
          /\ items = StoreAfter(n).items
          /\ indexFile = IF n = 0 THEN Absent
                                  ELSE FullFile(StoreAfter(n).index)
          /\ written = [id \in DOMAIN StoreAfter(n).items |->
                           [content |-> <<"H", "a", "t">>]]
    /\ tmpFile = Absent
    /\ wr = NoWrite
    /\ regops = 0
    /\ crashes = 0
    /\ call = NoCall
    /\ writers = NoWriters

SearchNext == CallToolExecute

SearchSpec == SearchInit /\ [][SearchNext]_vars

----------------------------------------------------------------------------
(* Properties.                                                             *)

Last(s) == s[Len(s)]

\* the request in flight is a tools/call whose params are an object
IsToolsCall ==
    /\ IsDict(request)
    /\ method = "tools/call"
    /\ IsDict(params)

ToolName == Get(params.v, "name", NoneV)

\* C1: every non-empty line the running loop takes in gets exactly one
\* response before the loop reads on or stops, and the loop is still
\* running when the response is written unless the request was shutdown.
C1_EveryLineAnswered ==
    /\ (pc \in {"read", "stopped"} /\ curLine # 0)
          => (output # <<>> /\ Last(output).line = curLine)
    /\ \A i, j \in 1..Len(output) : i # j => output[i].line # output[j].line
    /\ pc = "write" => (running \/ (IsDict(request) /\ method = "shutdown"))

\* C2: the response handle_request returns for a request object echoes the
\* id of the request (None when it has none) and has exactly one of the
\* fields result and error.
C2_ResponseEnvelope ==
    (pc = "write" /\ IsDict(request))
       => /\ response.id = Get(request.v, "id", NoneV)
          /\ ("result" \in DOMAIN response) # ("error" \in DOMAIN response)

C2_Witness ==
    /\ pc = "write"
    /\ IsDict(request)
    /\ "id" \in DOMAIN request.v
    /\ request.v.id = "7"
    /\ "error" \in DOMAIN response
    /\ response.error.code = -32603

\* C3: a line that does not parse is answered with id None and code -32700
\* without being routed: initialized, running, the registry and the store
\* stay as they are, and after the response is written the loop is back at
\* reading, still running.
C3_ParseError ==
    [][/\ (pc = "read" /\ pc' = "write")
            => /\ response'.id = NoneV
               /\ "error" \in DOMAIN response'
               /\ "result" \notin DOMAIN response'
               /\ response'.error.code = -32700
               /\ request' = NoRequest
               /\ UNCHANGED <<running, initialized, tools, items, indexFile,
                              tmpFile>>
       /\ (pc = "write" /\ ~IsDict(request) /\ pc' # "crashed")
            => /\ pc' = "read"
               /\ running'
               /\ output' = Append(output, [line |-> curLine])
               /\ UNCHANGED <<running, initialized, tools, items, indexFile,
                              tmpFile>>]_vars

C3_Witness ==
    /\ pc = "write"
    /\ running
    /\ request = NoRequest
    /\ response.id = NoneV
    /\ response.error.code = -32700
    /\ Len(output) = 1
    /\ nread = 2

\* C4: a tools/call without a name or with an empty name is answered with
\* code -32602, one with a name that is not registered with code -32601;
\* no tool runs and the store and the index stay as they are.
C4_ToolNameChecks ==
    [][(pc = "dispatch" /\ IsToolsCall /\ pc' # "crashed"
           /\ (ToolName \in {NoneV, ""} \/ ToolName \notin Range(tools)))
         => /\ pc' = "write"
            /\ "error" \in DOMAIN response'
            /\ "result" \notin DOMAIN response'
            /\ response'.error.code =
                  IF ToolName \in {NoneV, ""} THEN -32602 ELSE -32601
            /\ UNCHANGED <<items, indexFile, tmpFile, wr>>]_vars

C4_Witness ==
    /\ pc = "write"
    /\ IsToolsCall
    /\ ToolName = "memory.write"
    /\ "memory.write" \notin Range(tools)
    /\ response.error.code = -32601
    /\ items = EmptyDict

\* C5: when the execute of a registered tool fails, the response is an
\* error with code -32603 and the description of the failure as message,
\* whatever the failure is, and the flags and the registry of the
\* dispatcher are as before.
C5_ToolFailureIsInternalError ==
    [][(pc = "dispatch" /\ IsToolsCall /\ LookupTool(tools, params).ok
           /\ pc' = "write" /\ "error" \in DOMAIN response')
         => /\ response'.error.code = -32603
            /\ \E o \in ToolOutcomes(ToolName, LookupTool(tools, params).val.arguments,
                                     items, indexFile) :
                  ~o.ok /\ response'.error.message = o.exc.msg
            /\ response'.id = request_id
            /\ UNCHANGED <<running, initialized, tools>>]_vars

C5_Witness ==
    /\ pc = "write"
    /\ IsToolsCall
    /\ ToolName = "failing.tool"
    /\ "error" \in DOMAIN response
    /\ response.error.code = -32603
    /\ response.error.message = <<"Bad tool input">>

\* C6: a request whose method is none of initialize, tools/list, tools/call
\* and shutdown (or is missing) is answered with code -32601 and a message
\* that embeds the method; initialized, running and the registry stay.
C6_UnknownMethod ==
    [][(pc = "dispatch" /\ IsDict(request) /\ pc' # "crashed"
           /\ method \notin {"initialize", "tools/list", "tools/call",
                             "shutdown"})
         => /\ pc' = "write"
            /\ "result" \notin DOMAIN response'
            /\ "error" \in DOMAIN response'
            /\ response'.error.code = -32601
            /\ Last(response'.error.message) = method
            /\ UNCHANGED <<running, initialized, tools>>]_vars

C6_Witness ==
    /\ pc = "write"
    /\ IsDict(request)
    /\ "method" \notin DOMAIN request.v
    /\ response.error.code = -32601
    /\ response.error.message = <<"Unknown method: ", NoneV>>

\* C7: handling shutdown in the running loop clears running and builds the
\* response with the empty result; once the loop is back at its head with
\* running cleared, the response to the shutdown line is the last entry of
\* the output and no line has been read after that line.
C7_ShutdownStopsLoop ==
    /\ (pc = "write" /\ IsDict(request) /\ method = "shutdown")
          => /\ ~running
             /\ response = [jsonrpc |-> "2.0", id |-> request_id,
                            result |-> EmptyDict]
    /\ (pc \in {"read", "stopped"} /\ ~running)
          => /\ output # <<>>
             /\ Last(output).line = curLine
             /\ nread = curLine

C7_Witness ==
    /\ pc = "stopped"
    /\ ~running
    /\ Len(output) = 2
    /\ nread = 2

\* C8: an initialize request, in whatever state the dispatcher is and
\* whatever its params, leaves initialized true and is answered with the
\* one result: protocol version, capabilities, server name and version.
C8_InitializeIdempotent ==
    [][(pc = "dispatch" /\ IsDict(request) /\ method = "initialize"
           /\ pc' # "crashed")
         => /\ initialized'
            /\ pc' = "write"
            /\ response' =
                  [jsonrpc |-> "2.0", id |-> request_id,
                   result |-> [protocolVersion |-> "2024-11-05",
                               capabilities |-> [tools |-> EmptyDict],
                               serverInfo |-> [name |-> "mcp-server",
                                               version |-> "0.1.0"]]]
            /\ UNCHANGED <<running, tools, items, indexFile, tmpFile>>]_vars

\* an initialize with params null, handled when initialized was set before
C8_Witness ==
    /\ pc = "write"
    /\ IsDict(request)
    /\ method = "initialize"
    /\ "params" \in DOMAIN request.v
    /\ initialized
    /\ "result" \in DOMAIN response
    /\ Len(output) >= 1

\* C9: one request at a time, in order: the lines answered in the output
\* come in increasing order, none is answered twice, no line later than the
\* last one taken in is answered, and whenever the loop is about to read,
\* the last non-empty line it took in has its response in the output; a
\* blank line adds nothing to the output.
C9_OneAtATimeInOrder ==
    /\ \A i, j \in 1..Len(output) : i < j => output[i].line < output[j].line
    /\ \A i \in 1..Len(output) : output[i].line <= curLine
    /\ (pc = "read" /\ curLine # 0)
          => (output # <<>> /\ Last(output).line = curLine)
    /\ pc # "write" => response = EmptyDict
    /\ Len(output) <= nread

C9_Witness ==
    /\ pc = "read"
    /\ Len(output) = 2
    /\ output[1].line = 1
    /\ output[2].line = 3
    /\ nread = 3

\* C10: in every state, a crashed one or one inside a memory.write
\* included, each id listed under a keyword of the index file names a
\* record whose file is in the items directory with its whole content.
C10_IndexRefersToRecords ==
    exists(indexFile) =>
        /\ ~indexFile.partial
        /\ \A k \in DOMAIN indexFile.data :
              \A id \in Range(indexFile.data[k]) :
                 /\ id \in DOMAIN items
                 /\ exists(items[id])
                 /\ ~items[id].partial
                 /\ items[id].data.id = id

\* a crash inside the second write, its item file half written
C10_Witness ==
    /\ pc = "crashed"
    /\ exists(indexFile)
    /\ DOMAIN indexFile.data # {}
    /\ \E id \in DOMAIN items : items[id].partial

\* C11: the live index file is never a partly written one, in any state, a
\* crashed one included: it is absent, or the whole prior version, or the
\* whole new version. The only step that changes it is the replace (line
\* 112) by a temporary file written to its end, whose content is the prior
\* index with the item of the write added.
C11_LiveIndexOnlyReplaced ==
    [][/\ exists(indexFile)' => ~indexFile'.partial
       /\ indexFile' # indexFile =>
             /\ pc = "ix_replace"
             /\ exists(tmpFile)
             /\ ~tmpFile.partial
             /\ indexFile' = tmpFile
             /\ tmpFile.data =
                   AddToIndex(IF exists(indexFile) THEN indexFile.data
                                                   ELSE EmptyDict, wr.item)
      ]_vars

\* a crash between the open and the end of the write of the temporary file,
\* with the index of an earlier write still whole
C11_Witness ==
    /\ pc = "crashed"
    /\ exists(tmpFile)
    /\ tmpFile.partial
    /\ exists(indexFile)
    /\ ~indexFile.partial
    /\ written # EmptyDict

\* C12: in every state, inside a memory.write and after a crash included,
\* the file of a memory id in the items directory is either not there or
\* there with the whole serialized item.
C12_RecordFileAllOrNothing ==
    \A id \in DOMAIN items : exists(items[id]) => ~items[id].partial

----------------------------------------------------------------------------
(* The calls of the memory tools, as the properties below see them         *)

\* the request in flight is a tools/call of the registered tool `name`
\* whose arguments bind to the parameters of its execute()
CallOf(name) ==
    /\ IsToolsCall
    /\ ToolName = name
    /\ LookupTool(tools, params).ok
    /\ BindArguments(name, LookupTool(tools, params).val.arguments).ok

\* the arguments of that call
CallArgs == LookupTool(tools, params).val.arguments.v

\* the value a tool returned, read off the result of the response
ToolResult == response.result.content[1].text.json

\* the ids of the records in a result of memory.search
ResultIds(r) == {r.results[i].id : i \in 1..Len(r.results)}

\* the item a successful memory.write of these arguments stored under id
WrittenItem(id) == NewItem(id, written[id])

\* the index file lists the id under every keyword of the written item
Listed(id) ==
    \A k \in extract_keywords(WrittenItem(id)) :
        /\ exists(indexFile)
        /\ k \in DOMAIN indexFile.data
        /\ id \in Range(indexFile.data[k])

\* a memory.search has just returned; when its case-folded query is inside
\* a keyword of the written item and no more than top_k ids match (`blank`
\* says whether empty and white-space queries are held to this too), the
\* item is among the results
SearchReturnsWritten(id, blank) ==
    LET a     == CallArgs
        q     == Lower(a.query)
        top_k == IF "top_k" \in DOMAIN a THEN a.top_k ELSE 5
    IN  (/\ blank \/ ~(a.query = <<>> \/ IsBlank(a.query))
         /\ \E k \in extract_keywords(WrittenItem(id)) : IsSubstring(q, k)
         /\ Cardinality(MatchingIds(indexFile.data, q)) <= top_k)
        => /\ "result" \in DOMAIN response
           /\ ToolResult.count >= 1
           /\ \E i \in 1..Len(ToolResult.results) :
                 /\ ToolResult.results[i].id = id
                 /\ ToolResult.results[i].content = written[id].content

\* C13 as stated: after a successful memory.write the id is listed in the
\* index under every keyword of the item, and ANY later memory.search whose
\* case-folded query is a substring of one of those keywords returns the
\* record with count >= 1, when no more than top_k ids match.
C13_AnySubstringQueryFinds ==
    /\ \A id \in DOMAIN written : Listed(id)
    /\ (pc = "write" /\ CallOf("memory.search"))
          => \A id \in DOMAIN written : SearchReturnsWritten(id, TRUE)

\* C13, amended: the same for a query that is not empty and not only white
\* space; an empty query is a substring of every keyword and a white-space
\* one may be inside a tag, and both return no results.
C13_NonBlankSubstringQueryFinds ==
    /\ \A id \in DOMAIN written : Listed(id)
    /\ (pc = "write" /\ CallOf("memory.search"))
          => \A id \in DOMAIN written : SearchReturnsWritten(id, FALSE)

\* two writes of items that share a keyword, then a search in another case
\* that returns both
C13_Witness ==
    /\ pc = "write"
    /\ CallOf("memory.search")
    /\ CallArgs.query = <<"H", "a">>
    /\ Cardinality(DOMAIN written) = 2
    /\ "result" \in DOMAIN response
    /\ ResultIds(ToolResult) = DOMAIN written

\* the request in flight is a tools/call of the registered memory.write
\* whose arguments (an object, or left out) have no content or an empty one
WriteWithoutContent ==
    /\ IsToolsCall
    /\ ToolName = "memory.write"
    /\ LookupTool(tools, params).ok
    /\ IsDict(LookupTool(tools, params).val.arguments)
    /\ \/ "content" \notin DOMAIN CallArgs
       \/ CallArgs.content = <<>>

\* C14: a memory.write with empty or absent content is answered with an
\* error of code -32603 and no result, so no memory id is returned, and the
\* step changes nothing in the store: no item file is made, the index file
\* and its temporary file stay as they were, no write is left in progress.
C14_WriteWithoutContentFails ==
    [][(pc = "dispatch" /\ WriteWithoutContent)
         => /\ UNCHANGED <<items, indexFile, tmpFile, written>>
            /\ wr' = NoWrite
            /\ pc' # "crashed"
                  => /\ pc' = "write"
                     /\ DOMAIN response' = {"jsonrpc", "id", "error"}
                     /\ response'.error.code = -32603
                     /\ response'.id = request_id]_vars

\* the refusal of an empty content, with a record already in the store
C14_Witness ==
    /\ pc = "write"
    /\ WriteWithoutContent
    /\ "error" \in DOMAIN response
    /\ response.error.code = -32603
    /\ response.error.message = <<"content is required">>
    /\ written # EmptyDict

\* C15: a memory.search whose query is empty or only white space is
\* answered with the result {results: [], count: 0} and not with an error,
\* whatever the index file and the item files hold (keywords that contain
\* the query and half-written item files included) and whatever top_k is.
C15_BlankQueryReturnsNothing ==
    (/\ pc = "write"
     /\ CallOf("memory.search")
     /\ \A i \in 1..Len(CallArgs.query) : CallArgs.query[i] = " ")
        => /\ DOMAIN response = {"jsonrpc", "id", "result"}
           /\ ToolResult = [results |-> <<>>, count |-> 0]

\* a white-space query with a negative top_k, while the index has a keyword
\* with a space in it and the store a half-written item file
C15_Witness ==
    /\ pc = "write"
    /\ CallOf("memory.search")
    /\ CallArgs = [query |-> <<" ">>, top_k |-> -1]
    /\ exists(indexFile)
    /\ \E k \in DOMAIN indexFile.data : IsSubstring(<<" ">>, k)
    /\ \E id \in DOMAIN items : items[id].partial
    /\ "result" \in DOMAIN response
    /\ ToolResult.count = 0

\* C16: every record in a result of memory.search has its id listed in the
\* index file under a keyword that contains the case-folded query; so a
\* record listed only under keywords without the query in them (a keyword
\* that is a part of the query included) is not returned; and no id is in
\* the results twice.
C16_ResultsMatchQuery ==
    (pc = "write" /\ CallOf("memory.search") /\ "result" \in DOMAIN response)
        => LET rs == ToolResult.results
               q  == Lower(CallArgs.query)
           IN  /\ \A i \in 1..Len(rs) :
                     /\ exists(indexFile)
                     /\ \E k \in DOMAIN indexFile.data :
                           /\ IsSubstring(q, k)
                           /\ rs[i].id \in Range(indexFile.data[k])
               /\ \A i, j \in 1..Len(rs) : i # j => rs[i].id # rs[j].id

\* two records in the index, the search returns the one whose keyword has
\* the query in it and not the other
C16_Witness ==
    /\ pc = "write"
    /\ CallOf("memory.search")
    /\ "top_k" \notin DOMAIN CallArgs
    /\ "result" \in DOMAIN response
    /\ Cardinality(DOMAIN written) = 2
    /\ Cardinality(ResultIds(ToolResult)) = 1
    /\ ToolResult.results[1].content = <<"H", "a", "t">>

\* C17 as stated: for EVERY integer top_k (5 when it is left out) a result
\* of memory.search has at most top_k entries, and its count is the number
\* of its entries.
C17_AtMostTopKForAnyInteger ==
    (pc = "write" /\ CallOf("memory.search") /\ "result" \in DOMAIN response)
        => LET top_k == IF "top_k" \in DOMAIN CallArgs THEN CallArgs.top_k
                                                       ELSE 5
           IN  /\ Len(ToolResult.results) <= top_k
               /\ ToolResult.count = Len(ToolResult.results)

\* C17, amended: the same for every top_k that is not negative; count is
\* the number of entries for every top_k, a negative one included.
C17_AtMostTopK ==
    (pc = "write" /\ CallOf("memory.search") /\ "result" \in DOMAIN response)
        => LET top_k == IF "top_k" \in DOMAIN CallArgs THEN CallArgs.top_k
                                                       ELSE 5
           IN  /\ top_k >= 0 => Len(ToolResult.results) <= top_k
               /\ ToolResult.count = Len(ToolResult.results)

\* more than five ids match and top_k is left out: five records come back
C17_Witness ==
    /\ pc = "write"
    /\ CallOf("memory.search")
    /\ "top_k" \notin DOMAIN CallArgs
    /\ exists(indexFile)
    /\ Cardinality(MatchingIds(indexFile.data, Lower(CallArgs.query))) > 5
    /\ "result" \in DOMAIN response
    /\ ToolResult.count = 5

\* C18: a memory.get with a memory_id that is not empty is never answered
\* with an error, in any state of the store: the result is {memory: null}
\* when the id has no file in the items directory and {memory: the record}
\* when it has one.
C18_GetNeverFails ==
    (pc = "write" /\ CallOf("memory.get") /\ CallArgs.memory_id # "")
        => LET f == ItemFile(items, CallArgs.memory_id)
           IN  /\ DOMAIN response = {"jsonrpc", "id", "result"}
               /\ ~exists(f) => ToolResult.memory = JNull
               /\ exists(f) => (~f.partial /\ ToolResult.memory = f.data)

\* C19: a memory.get of a memory id that a successful memory.write
\* returned, whatever was written, searched, fetched or crashed in between,
\* returns a record with that id whose content is the content written and
\* whose keywords are the tags written (none when no tags were given).
C19_WriteGetRoundTrip ==
    (pc = "write" /\ CallOf("memory.get")
        /\ CallArgs.memory_id \in DOMAIN written)
        => LET a == written[CallArgs.memory_id]
           IN  /\ DOMAIN response = {"jsonrpc", "id", "result"}
               /\ ToolResult.memory.id = CallArgs.memory_id
               /\ ToolResult.memory.content = a.content
               /\ ToolResult.memory.keywords =
                     IF "tags" \in DOMAIN a THEN a.tags ELSE <<>>

\* the first of two written records, one with tags, is fetched after the
\* second write
C19_Witness ==
    /\ pc = "write"
    /\ CallOf("memory.get")
    /\ CallArgs.memory_id = MemIdPool[1]
    /\ Cardinality(DOMAIN written) = 2
    /\ "tags" \in DOMAIN written[MemIdPool[1]]
    /\ "result" \in DOMAIN response
    /\ ToolResult.memory.keywords = << <<"T", " ", "a">> >>

\* C20: a register_tool call enters a new name last and leaves the order
\* and the number of entries as they are when the name is already there;
\* unregister_tool(name) returns True and takes the entry out when the name
\* is registered, and returns False and changes nothing when it is not; no
\* name is ever entered twice; and the result of tools/list has one
\* descriptor {name, description, inputSchema} for each registered name, in
\* the order of the registry.
C20_RegistryAndListing ==
    [][/\ regops' # regops =>
             LET name == call'.name
                 was  == \E i \in 1..Len(tools) : tools[i] = name
             IN  /\ pc' = pc
                 /\ call'.op = "register" =>
                       tools' = IF was THEN tools ELSE tools \o <<name>>
                 /\ call'.op = "unregister" =>
                       /\ call'.ret = (IF was THEN "True" ELSE "False")
                       /\ tools' = SelectSeq(tools, LAMBDA n : n # name)
       /\ \A i, j \in 1..Len(tools') : i # j => tools'[i] # tools'[j]
       /\ (pc' = "write" /\ IsDict(request') /\ method' = "tools/list")
             => /\ DOMAIN response' = {"jsonrpc", "id", "result"}
                /\ DOMAIN response'.result = {"tools"}
                /\ Len(response'.result.tools) = Len(tools')
                /\ \A i \in 1..Len(tools') :
                      /\ DOMAIN response'.result.tools[i]
                            = {"name", "description", "inputSchema"}
                      /\ response'.result.tools[i].name = tools'[i]
      ]_vars

\* tools/list after memory.search was unregistered: the two names left, in
\* the order they were registered in
C20_Witness ==
    /\ pc = "write"
    /\ IsDict(request)
    /\ method = "tools/list"
    /\ tools = <<"memory.write", "memory.get">>
    /\ "result" \in DOMAIN response
    /\ Len(response.result.tools) = 2
    /\ response.result.tools[2].name = "memory.get"

\* the index a reader of the index file gets (none yet: the empty one)
LiveIndex == IF exists(indexFile) THEN indexFile.data ELSE EmptyDict

\* C21: with the one writer of the server, the index only grows: over every
\* step (crashes and restarts included) each keyword of the index is still
\* a keyword afterwards and each id listed under it is still listed under
\* it, and no id is twice in the list of a keyword.
C21_IndexOnlyGrows ==
    [][/\ \A k \in DOMAIN LiveIndex :
             /\ k \in DOMAIN LiveIndex'
             /\ \A i \in 1..Len(LiveIndex[k]) :
                   \E j \in 1..Len(LiveIndex'[k]) :
                      LiveIndex'[k][j] = LiveIndex[k][i]
       /\ \A k \in DOMAIN LiveIndex' :
             \A i, j \in 1..Len(LiveIndex'[k]) :
                i # j => LiveIndex'[k][i] # LiveIndex'[k][j]
      ]_vars

\* the second write has added its id to a keyword the first write made and
\* a keyword of its own
C21_Witness ==
    /\ exists(indexFile)
    /\ Cardinality(DOMAIN written) = 2
    /\ \E k \in DOMAIN indexFile.data : Len(indexFile.data[k]) = 2
    /\ \E k \in DOMAIN indexFile.data : indexFile.data[k] = <<MemIdPool[2]>>

\* C22: a line that is empty or only white space (it is counted as read but
\* is not the line in hand) adds nothing to the output and leaves the loop
\* about to read again, still running; the loop stops only at the end of
\* the stream (while running, about to read), after a handled shutdown
\* (about to read, not running), or on a failure of the loop (a request
\* that is not an object), and the stop itself writes no response; and with
\* a finite input the loop does stop.
C22_BlankSkippedAndLoopStops ==
    /\ [][/\ (nread' # nread /\ curLine' = curLine)
                => /\ pc' = "read"
                   /\ running'
                   /\ output' = output
                   /\ response' = response
          /\ (pc # "stopped" /\ pc' = "stopped")
                => /\ output' = output
                   /\ nread' = nread
                   /\ \/ pc = "read" /\ running
                      \/ pc = "read" /\ ~running /\ output # <<>>
                      \/ pc = "dispatch" /\ ~IsDict(request)
         ]_vars
    /\ <>(pc = "stopped")

\* an empty line and an answered line were read, then the end of the stream
C22_Witness ==
    /\ pc = "stopped"
    /\ running
    /\ request = NoRequest
    /\ nread = 2
    /\ Len(output) = 1

\* the index file as it is lists the id of the item of process w under
\* every keyword of the item
WriterListed(w) ==
    /\ exists(indexFile)
    /\ ~indexFile.partial
    /\ \A k \in extract_keywords(writers[w].item) :
          /\ k \in DOMAIN indexFile.data
          /\ writers[w].item.id \in Range(indexFile.data[k])

BothSucceeded ==
    \A w \in Writers : writers[w].pc = "done" /\ writers[w].result = "success"

\* C23: with two writer processes on one data directory, both writes can
\* return success and yet the id of one is not in the index under one of
\* its keywords (the witness below); this happens only when the index
\* updates interleave, that is when one process loaded the index while the
\* other was between its load and its replace.  When they do not interleave
\* (which is all a single writer can do) both ids are listed.
C23_LostUpdateOnlyWhenInterleaved ==
    BothSucceeded =>
        \/ \A w \in Writers : WriterListed(w)
        \/ \E w \in Writers : writers[w].overlap

\* both writes returned success and the id of one of them is not listed
\* under a keyword of its item
C23_Witness ==
    /\ BothSucceeded
    /\ exists(indexFile)
    /\ ~indexFile.partial
    /\ \E w \in Writers : ~WriterListed(w)

\* C24: the store is changed by successful memory.write calls and by
\* nothing else.  In a process that was never killed, whenever no write is
\* under way the item files are exactly those of the ids that successful
\* writes returned, each with the item that write built (so no other
\* request, and no request answered with an error, made, changed or removed
\* a file, and each successful write added one file and left the others),
\* and the index lists under each keyword exactly the ids of those items
\* that have the keyword.
C24_StoreChangedOnlyBySuccessfulWrites ==
    (crashes = 0 /\ pc \in {"init", "read", "dispatch", "write", "stopped"})
        => /\ DOMAIN items = DOMAIN written
           /\ \A id \in DOMAIN written : items[id] = FullFile(WrittenItem(id))
           /\ tmpFile = Absent
           /\ DOMAIN LiveIndex =
                 UNION {extract_keywords(WrittenItem(id)) :
                           id \in DOMAIN written}
           /\ \A k \in DOMAIN LiveIndex :
                 Range(LiveIndex[k]) =
                    {id \in DOMAIN written :
                        k \in extract_keywords(WrittenItem(id))}

\* C25: initialized is false at the start; it becomes true only in the
\* handling of an initialize request and no step of a running process makes
\* it false again (a new process starts with it false); and tools/list,
\* shutdown and tools/call are handled without a look at it: tools/list is
\* answered with the descriptors of the registry, shutdown with {} while
\* running is cleared, tools/call with what the lookup or the tool gives
\* (or the write begins), each leaving initialized as it was, set or not.
C25_InitializedGatesNothing ==
    /\ ~initialized
    /\ [][/\ (~initialized /\ initialized')
                => (pc = "dispatch" /\ IsDict(request)
                       /\ method = "initialize")
          /\ (initialized /\ ~initialized') => pc' = "crashed"
          /\ (pc = "dispatch" /\ IsDict(request) /\ pc' # "crashed"
                 /\ method \in {"tools/list", "shutdown", "tools/call"})
                => /\ initialized' = initialized
                   /\ method = "tools/list" =>
                         response' = [jsonrpc |-> "2.0", id |-> request_id,
                                      result |-> list_tools(tools)]
                   /\ method = "shutdown" =>
                         /\ ~running'
                         /\ response' = [jsonrpc |-> "2.0",
                                         id |-> request_id,
                                         result |-> EmptyDict]
                   /\ method = "tools/call" =>
                         LET t == LookupTool(tools, params)
                         IN  IF ~t.ok
                             THEN response' = Respond(request_id, t)
                             ELSE \/ pc' = "mw_open"
                                  \/ \E o \in ToolOutcomes(t.val.name,
                                                 t.val.arguments, items,
                                                 indexFile) :
                                        response' =
                                           Respond(request_id,
                                                   WrapToolOutcome(o))
         ]_vars

\* a write and then another tool call, both served with a result and no
\* initialize ever received
C25_Witness ==
    /\ ~initialized
    /\ crashes = 0
    /\ pc = "write"
    /\ IsToolsCall
    /\ "result" \in DOMAIN response
    /\ written # EmptyDict
    /\ Len(output) = 1

====
